---- MODULE Spec2Model ----
(***************************************************************************)
(* Model of src/src/components/Fileupload.tsx (CsvFileUploader): CSV       *)
(* upload, header check, per-row schema validation, concurrent activation  *)
(* lookups joined by Promise.all, Clear, and the two CSV downloads.        *)
(*                                                                         *)
(* Text is modelled as a sequence of one-character strings, so that        *)
(* length, trimming, joining and numeric coercion are computed, not        *)
(* assumed.  A header name is a sequence of tokens (a word or a comma).    *)
(* One action is one browser task together with the microtasks it runs.    *)
(***************************************************************************)
EXTENDS Integers, Sequences, FiniteSets, TLC

VARIABLES validatedData, errors, loading, inputValue, uploads, objectURLs,
          lastWrite, clearedSince

vars == <<validatedData, errors, loading, inputValue, uploads, objectURLs,
          lastWrite, clearedSince>>

\* validatedData, errors, loading: the component's three useState values.
\* inputValue: fileInputRef.current.value.
\* uploads: one record per chosen file, in the order chosen (see NewUpload).
\* objectURLs: the object URLs created and not revoked.
\* lastWrite: the upload whose batch last wrote validatedData, 0 when the
\*   last writer was Clear or a header mismatch (history).
\* clearedSince: Clear ran and no file has been chosen since (history).

\* ---------------------------------------------------------------- bounds
MaxRows == 2
MaxUploads == 2
MaxRowsOverlap == 1
MaxDownloads == 2

\* ------------------------------------------------------------- text
Min(a, b) == IF a < b THEN a ELSE b

Digits == {"0", "1", "2", "3", "4", "5", "6", "7", "8", "9"}

DigitVal(c) ==
  CASE c = "0" -> 0 [] c = "1" -> 1 [] c = "2" -> 2 [] c = "3" -> 3
    [] c = "4" -> 4 [] c = "5" -> 5 [] c = "6" -> 6 [] c = "7" -> 7
    [] c = "8" -> 8 [] c = "9" -> 9

RECURSIVE Trim(_)
Trim(s) ==
  IF s = <<>> THEN s
  ELSE IF Head(s) = " " THEN Trim(Tail(s))
  ELSE IF s[Len(s)] = " " THEN Trim(SubSeq(s, 1, Len(s) - 1))
  ELSE s

RECURSIVE DecimalValue(_)
DecimalValue(s) ==
  IF s = <<>> THEN 0
  ELSE 10 * DecimalValue(SubSeq(s, 1, Len(s) - 1)) + DigitVal(s[Len(s)])

\* A cell a row object does not have (JavaScript undefined).
Undefined == <<"undefined">>

\* Number(x) of z.coerce.number(): undefined and non-numeric text give NaN,
\* empty or blank text gives 0.
CoerceNumber(x) ==
  IF x = Undefined THEN [nan |-> TRUE, val |-> 0]
  ELSE LET t == Trim(x) IN
    IF \A i \in 1..Len(t) : t[i] \in Digits
    THEN [nan |-> FALSE, val |-> DecimalValue(t)]
    ELSE [nan |-> TRUE, val |-> 0]

\* z.string().email(): one "@", a non-empty local part, a dot inside the
\* domain, no blanks.
IsEmail(s) ==
  /\ \A i \in 1..Len(s) : s[i] # " "
  /\ \E i \in 2..Len(s) :
       /\ s[i] = "@"
       /\ \A j \in 1..Len(s) : s[j] = "@" => j = i
       /\ \E j \in (i + 2)..(Len(s) - 1) : s[j] = "."

\* Array.prototype.join(","): the names' tokens with a comma between names.
RECURSIVE JoinComma(_)
JoinComma(names) ==
  IF names = <<>> THEN <<>>
  ELSE IF Len(names) = 1 THEN names[1]
  ELSE names[1] \o <<",">> \o JoinComma(Tail(names))

\* ------------------------------------------------------------- schema
FIRSTNAME == <<"firstname">>
LASTNAME == <<"lastname">>
USERNAME == <<"username">>
UID == <<"uid">>
PASSWORD == <<"password">>
EMAIL == <<"email">>
MEMBERSHIPPLANID == <<"membershipplanid">>

expectedHeaders ==
  <<FIRSTNAME, LASTNAME, USERNAME, UID, PASSWORD, EMAIL, MEMBERSHIPPLANID>>

Get(row, key) == IF key \in DOMAIN row THEN row[key] ELSE Undefined

\* z.string().nonempty(message): the issues of one field.
NonEmptyString(row, key, message) ==
  LET v == Get(row, key) IN
  IF v = Undefined THEN <<[path |-> key, message |-> "Required"]>>
  ELSE IF Len(v) = 0 THEN <<[path |-> key, message |-> message]>>
  ELSE <<>>

\* z.coerce.number().refine(!Number.isNaN): the issues of one field.
CoercedNumber(row, key) ==
  IF CoerceNumber(Get(row, key)).nan
  THEN <<[path |-> key, message |-> "Expected number, received nan"]>>
  ELSE <<>>

\* z.string().email(message): the issues of one field.
EmailString(row, key, message) ==
  LET v == Get(row, key) IN
  IF v = Undefined THEN <<[path |-> key, message |-> "Required"]>>
  ELSE IF ~IsEmail(v) THEN <<[path |-> key, message |-> message]>>
  ELSE <<>>

\* csvSchema.safeParse(row): every field is checked, issues in schema order;
\* on success the data is the row with uid and membershipplanid coerced.
csvSchema(row) ==
  LET issues ==
        NonEmptyString(row, FIRSTNAME, "First name is required")
        \o NonEmptyString(row, LASTNAME, "Last name is required")
        \o NonEmptyString(row, USERNAME, "Username is required")
        \o CoercedNumber(row, UID)
        \o NonEmptyString(row, PASSWORD, "Password is required")
        \o EmailString(row, EMAIL, "Invalid email format")
        \o CoercedNumber(row, MEMBERSHIPPLANID)
  IN IF issues = <<>>
     THEN [success |-> TRUE, issues |-> <<>>,
           data |-> [firstname |-> row[FIRSTNAME], lastname |-> row[LASTNAME],
                     username |-> row[USERNAME],
                     uid |-> CoerceNumber(row[UID]).val,
                     password |-> row[PASSWORD], email |-> row[EMAIL],
                     membershipplanid |-> CoerceNumber(row[MEMBERSHIPPLANID]).val]]
     ELSE [success |-> FALSE, issues |-> issues, data |-> <<>>]

\* ------------------------------------------------------------- files
\* Papa.parse(csvString, {header: true, skipEmptyLines: true}): a file is
\* its header names and its non-empty data lines; each line becomes an
\* object keyed by the header names, cells beyond the header are not keyed.
PapaParse(file) ==
  [meta |-> [fields |-> file.fields],
   data |-> [k \in 1..Len(file.lines) |->
              LET line == file.lines[k]
                  n == Min(Len(file.fields), Len(line))
              IN [name \in {file.fields[j] : j \in 1..n} |->
                    line[CHOOSE j \in 1..n : file.fields[j] = name]]]]

\* The header test of the complete callback.
HeaderAccepted(fields) ==
  ~(fields = <<>> \/ JoinComma(fields) # JoinComma(expectedHeaders))

HeaderMessage ==
  [row |-> 0, path |-> JoinComma(expectedHeaders),
   message |-> "CSV header does not match expected order. Expected: "]

\* RowError citing the 0-based index.
RowErrorZeroBased(index, err) ==
  [row |-> index, path |-> err.path, message |-> err.message]

\* `Row ${index + 1} - ${err.path.join(" ")}: ${err.message}`, index from 0.
RowError(index, err) ==
  [row |-> index + 1, path |-> err.path, message |-> err.message]

\* ForEachRow leaving the loop at the first invalid record.
RECURSIVE ForEachRowUntilInvalid(_, _)
ForEachRowUntilInvalid(data, n) ==
  IF n = 0 THEN [validRows |-> <<>>, errorList |-> <<>>, from |-> <<>>]
  ELSE LET acc == ForEachRowUntilInvalid(data, n - 1)
           parseResult == csvSchema(data[n])
       IN IF acc.errorList # <<>> THEN acc
          ELSE IF parseResult.success
          THEN [acc EXCEPT !.validRows = Append(@, parseResult.data),
                           !.from = Append(@, n)]
          ELSE [acc EXCEPT !.errorList =
                  @ \o [j \in 1..Len(parseResult.issues) |->
                          RowError(n - 1, parseResult.issues[j])]]

\* data.forEach((row, index) => ...): the valid rows and the error list
\* after the first n records; from[i] is the record validRows[i] came from.
RECURSIVE ForEachRow(_, _)
ForEachRow(data, n) ==
  IF n = 0 THEN [validRows |-> <<>>, errorList |-> <<>>, from |-> <<>>]
  ELSE LET acc == ForEachRow(data, n - 1)
           parseResult == csvSchema(data[n])
       IN IF parseResult.success
          THEN [acc EXCEPT !.validRows = Append(@, parseResult.data),
                           !.from = Append(@, n)]
          ELSE [acc EXCEPT !.errorList =
                  @ \o [j \in 1..Len(parseResult.issues) |->
                          RowError(n - 1, parseResult.issues[j])]]

\* validRows.map((row) => fetchActivationStatusForRow(row)): the number of
\* requests issued for each decoded record.
RequestsIssued(data, from) ==
  [k \in 1..Len(data) |-> Cardinality({i \in 1..Len(from) : from[i] = k})]

\* ------------------------------------------------------------- lookups
Pending == [pending |-> TRUE]

WithStatus(row, activationStatus) ==
  [firstname |-> row.firstname, lastname |-> row.lastname,
   username |-> row.username, uid |-> row.uid, password |-> row.password,
   email |-> row.email, membershipplanid |-> row.membershipplanid,
   activationStatus |-> activationStatus]

\* What the network did for one request: fetch rejected ("netfail"),
\* response.json() rejected ("malformed"), or a body was decoded: null
\* ("null"), an object whose response field is true ("true"), any other
\* value ("other").
FetchEvents == {"netfail"}
JsonEvents == {"malformed", "null", "true", "other"}

\* fetchActivationStatusForRow without its catch: a failure rejects.
fetchActivationStatusForRowUncaught(row, ev) ==
  IF ev \in {"netfail", "malformed", "null"}
  THEN [kind |-> "rejected", value |-> Pending]
  ELSE [kind |-> "fulfilled",
        value |-> WithStatus(row, IF ev = "true" THEN "Activated" ELSE "Inactive")]

\* fetchActivationStatusForRow: how its promise settles for one event.  A
\* null body makes result.response throw, inside the try like the awaits.
fetchActivationStatusForRow(row, ev) ==
  IF ev \in {"netfail", "malformed", "null"}
  THEN [kind |-> "fulfilled", value |-> WithStatus(row, "Error")]
  ELSE [kind |-> "fulfilled",
        value |-> WithStatus(row, IF ev = "true" THEN "Activated" ELSE "Inactive")]

\* Values collected in the order the promises settle.
StoreValueInSettleOrder(vals, i, v) ==
  [vals EXCEPT ![CHOOSE j \in 1..Len(vals) :
                   vals[j] = Pending /\ \A k \in 1..(j - 1) : vals[k] # Pending] = v]

\* Promise.all: the value of the i-th promise goes to index i.
StoreValue(vals, i, v) == [vals EXCEPT ![i] = v]

\* Promise.all fulfils when every element has fulfilled.
AllFulfilled(vals) == \A i \in 1..Len(vals) : vals[i] # Pending

\* ------------------------------------------------------------- inputs
Line(firstname, uid, password, email) ==
  <<firstname, <<"b">>, <<"c">>, uid, password, email, <<"3">>>>

GoodEmail == <<"e", "@", "d", ".", "f">>

\* Data lines: two valid ones, a blank first name, an empty first name, two
\* bad fields at once, a non-numeric uid, and a line cut short after uid.
Lines ==
  { Line(<<"a">>, <<"1">>, <<"p">>, GoodEmail),
    Line(<<"a">>, <<"1", "2">>, <<"p">>, GoodEmail),
    Line(<<" ">>, <<"4">>, <<"p">>, GoodEmail),
    Line(<<>>, <<"5">>, <<"p">>, GoodEmail),
    Line(<<"a">>, <<"6">>, <<>>, <<"e", "@", "d">>),
    Line(<<"a">>, <<"x">>, <<"p">>, GoodEmail),
    <<<<"a">>, <<"b">>, <<"c">>, <<"7">>>> }

SwappedHeaders ==
  <<UID, FIRSTNAME, LASTNAME, USERNAME, PASSWORD, EMAIL, MEMBERSHIPPLANID>>

\* A header line whose first, quoted name contains a comma.
QuotedCommaHeaders ==
  <<FIRSTNAME \o <<",">> \o LASTNAME, USERNAME, UID, PASSWORD, EMAIL,
    MEMBERSHIPPLANID>>

Headers == {expectedHeaders, SwappedHeaders, QuotedCommaHeaders, <<>>}

SeqsUpTo(S, n) == UNION {[1..k -> S] : k \in 0..n}

Files ==
  {[fields |-> h, lines |-> ls] : h \in Headers, ls \in SeqsUpTo(Lines, MaxRows)}

OverlapLines ==
  { Line(<<"a">>, <<"1">>, <<"p">>, GoodEmail),
    Line(<<>>, <<"5">>, <<"p">>, GoodEmail) }

FilesOverlap ==
  {[fields |-> expectedHeaders, lines |-> ls] :
     ls \in SeqsUpTo(OverlapLines, MaxRowsOverlap)}
  \cup {[fields |-> SwappedHeaders, lines |-> <<>>]}

\* ------------------------------------------------------------- state
\* An upload from the moment its file is chosen: phase is "reading" (the
\* FileReader has not fired onload), "rejected" (header mismatch),
\* "inflight" (awaiting Promise.all), "done" (Promise.all fulfilled) or
\* "failed" (Promise.all rejected).  pc[i] is where the lookup of
\* validRows[i] stands ("fetch", "json", "done"), vals[i] the value its
\* promise fulfilled with, resp[i] what the network did for it, and
\* overtaken records that a lookup settled before an earlier row's.
NewUpload(file) ==
  [file |-> file, phase |-> "reading", data |-> <<>>, validRows |-> <<>>,
   from |-> <<>>, calls |-> <<>>, pc |-> <<>>, vals |-> <<>>, resp |-> <<>>,
   overtaken |-> FALSE]

Init ==
  /\ validatedData = <<>>
  /\ errors = <<>>
  /\ loading = FALSE
  /\ inputValue = ""
  /\ uploads = <<>>
  /\ objectURLs = <<>>
  /\ lastWrite = 0
  /\ clearedSince = FALSE

\* ------------------------------------------------------------- actions
\* handleClear, reachable while the Clear button is rendered.
handleClear ==
  /\ Len(validatedData) > 0 \/ Len(errors) > 0
  /\ validatedData' = <<>>
  /\ errors' = <<>>
  /\ inputValue' = ""
  /\ lastWrite' = 0
  /\ clearedSince' = TRUE
  /\ UNCHANGED <<loading, uploads, objectURLs>>

\* handleFileUpload: a file is chosen and reader.readAsText(file) starts.
handleFileUpload(file) ==
  /\ uploads' = Append(uploads, NewUpload(file))
  /\ inputValue' = "file.csv"
  /\ clearedSince' = FALSE
  /\ UNCHANGED <<validatedData, errors, loading, objectURLs, lastWrite>>

\* The complete callback from setErrors(errorList) to the await, acc being
\* what data.forEach left: the lookups are started, and with no valid row
\* Promise.all([]) is already fulfilled, so that the rest of the callback
\* runs in the same task.  The value is the state the callback leaves.
startLookups(u, up, data, acc) ==
  LET n == Len(acc.validRows)
      vals == [i \in 1..n |-> Pending]
      started ==
        [up EXCEPT !.data = data, !.validRows = acc.validRows,
                   !.from = acc.from,
                   !.calls = RequestsIssued(data, acc.from),
                   !.pc = [i \in 1..n |-> "fetch"],
                   !.vals = vals,
                   !.resp = [i \in 1..n |-> "none"]]
  IN IF AllFulfilled(vals)
     THEN [errors |-> acc.errorList, validatedData |-> vals,
           loading |-> FALSE, lastWrite |-> u,
           upload |-> [started EXCEPT !.phase = "done"]]
     ELSE [errors |-> acc.errorList, validatedData |-> validatedData,
           loading |-> TRUE, lastWrite |-> lastWrite,
           upload |-> [started EXCEPT !.phase = "inflight"]]

\* The complete callback of Papa.parse for upload up (number u): the header
\* test, then the row processing and the lookups.
complete(u, up, results) ==
  IF ~HeaderAccepted(results.meta.fields)
  THEN [errors |-> <<HeaderMessage>>, validatedData |-> <<>>,
        loading |-> loading, lastWrite |-> 0,
        upload |-> [up EXCEPT !.phase = "rejected"]]
  ELSE CHOOSE after \in
         {startLookups(u, up, results.data, acc) :
            acc \in {ForEachRow(results.data, Len(results.data))}} : TRUE

\* reader.onload of upload u: Papa.parse and its complete callback.
ReaderOnLoad(u) ==
  /\ uploads[u].phase = "reading"
  /\ \E results \in {PapaParse(uploads[u].file)} :
     \E after \in {complete(u, uploads[u], results)} :
       /\ errors' = after.errors
       /\ validatedData' = after.validatedData
       /\ loading' = after.loading
       /\ lastWrite' = after.lastWrite
       /\ uploads' = [uploads EXCEPT ![u] = after.upload]
  /\ UNCHANGED <<inputValue, objectURLs, clearedSince>>

\* The promise of fetchActivationStatusForRow(validRows[i]) of upload u
\* settles after network event ev, and Promise.all reacts in the same task:
\* it fulfils once every value is in, it rejects at the first rejection.
Settle(u, i, ev) ==
  LET up == uploads[u]
      r == fetchActivationStatusForRow(up.validRows[i], ev)
      vals == IF r.kind = "fulfilled" THEN StoreValue(up.vals, i, r.value)
              ELSE up.vals
      settled ==
        [up EXCEPT !.pc[i] = "done", !.resp[i] = ev, !.vals = vals,
                   !.overtaken = @ \/ \E j \in 1..(i - 1) : up.pc[j] # "done"]
  IN IF up.phase # "inflight"
     THEN /\ uploads' = [uploads EXCEPT ![u] = settled]
          /\ UNCHANGED <<validatedData, loading, lastWrite>>
     ELSE IF r.kind = "rejected"
     THEN /\ uploads' = [uploads EXCEPT ![u] = [settled EXCEPT !.phase = "failed"]]
          /\ loading' = FALSE
          /\ UNCHANGED <<validatedData, lastWrite>>
     ELSE IF AllFulfilled(vals)
     THEN /\ uploads' = [uploads EXCEPT ![u] = [settled EXCEPT !.phase = "done"]]
          /\ validatedData' = vals
          /\ loading' = FALSE
          /\ lastWrite' = u
     ELSE /\ uploads' = [uploads EXCEPT ![u] = settled]
          /\ UNCHANGED <<validatedData, loading, lastWrite>>

\* await fetch(apiUrl) settles: the response arrives or the request fails.
FetchSettles(u, i, ok) ==
  /\ uploads[u].pc[i] = "fetch"
  /\ IF ok
     THEN /\ uploads' = [uploads EXCEPT ![u].pc[i] = "json"]
          /\ UNCHANGED <<validatedData, loading, lastWrite>>
     ELSE Settle(u, i, "netfail")
  /\ UNCHANGED <<errors, inputValue, objectURLs, clearedSince>>

\* await response.json() settles with a body or a parse failure.
JsonSettles(u, i, ev) ==
  /\ uploads[u].pc[i] = "json"
  /\ Settle(u, i, ev)
  /\ UNCHANGED <<errors, inputValue, objectURLs, clearedSince>>

\* handleDownloadHeaderCSV: an object URL is created for the blob and the
\* link is clicked and removed.
handleDownloadHeaderCSV ==
  /\ Len(objectURLs) < MaxDownloads
  /\ objectURLs' = Append(objectURLs, "csv_header_format.csv")
  /\ UNCHANGED <<validatedData, errors, loading, inputValue, uploads,
                 lastWrite, clearedSince>>

\* handleDownloadCSV, reachable while the download button is rendered; it
\* returns at once when there is no row.
handleDownloadCSV ==
  /\ Len(validatedData) > 0 /\ ~loading
  /\ Len(objectURLs) < MaxDownloads
  /\ IF Len(validatedData) = 0
     THEN UNCHANGED objectURLs
     ELSE objectURLs' = Append(objectURLs, "activation_results.csv")
  /\ UNCHANGED <<validatedData, errors, loading, inputValue, uploads,
                 lastWrite, clearedSince>>

\* --------------------------------------------------------- specifications
ChooseFirstFile == \E file \in Files : uploads = <<>> /\ handleFileUpload(file)

ChooseFile ==
  \E file \in FilesOverlap : Len(uploads) < MaxUploads /\ handleFileUpload(file)

FileRead == \E u \in 1..Len(uploads) : ReaderOnLoad(u)

FetchDone ==
  \E u \in 1..Len(uploads) : \E i \in 1..Len(uploads[u].pc) :
    \E ok \in BOOLEAN : FetchSettles(u, i, ok)

JsonDone ==
  \E u \in 1..Len(uploads) : \E i \in 1..Len(uploads[u].pc) :
    \E ev \in JsonEvents : JsonSettles(u, i, ev)

\* One upload of any file, and Clear.
Next ==
  \/ ChooseFirstFile
  \/ FileRead
  \/ FetchDone
  \/ JsonDone
  \/ handleClear

Spec == Init /\ [][Next]_vars

\* The same where the file is eventually read and every lookup eventually
\* settles.
FairSpec ==
  Spec /\ WF_vars(FileRead) /\ WF_vars(FetchDone) /\ WF_vars(JsonDone)

\* One upload, Clear and the two downloads.
NextDownloads ==
  \/ ChooseFirstFile
  \/ FileRead
  \/ FetchDone
  \/ JsonDone
  \/ handleClear
  \/ handleDownloadHeaderCSV
  \/ handleDownloadCSV

SpecDownloads == Init /\ [][NextDownloads]_vars

\* Uploads chosen while earlier ones are still being read or looked up.
NextOverlap ==
  \/ ChooseFile
  \/ FileRead
  \/ FetchDone
  \/ JsonDone
  \/ handleClear

SpecOverlap == Init /\ [][NextOverlap]_vars

\* ------------------------------------------------------------- claims
Started(u) == uploads[u].phase \in {"inflight", "done", "failed"}

ValidSet(data) == {k \in 1..Len(data) : csvSchema(data[k]).success}

Rank(data, k) == Cardinality({j \in ValidSet(data) : j <= k})

NthValidRow(data, i) ==
  csvSchema(data[CHOOSE k \in ValidSet(data) : Rank(data, k) = i]).data

FailureEvents == {"netfail", "malformed", "null"}

ExpectedStatus(ev) ==
  IF ev \in FailureEvents THEN "Error"
  ELSE IF ev = "true" THEN "Activated" ELSE "Inactive"

\* C1: the collection a batch writes on completion has one element per valid
\* row, the i-th being the i-th valid row in input order with the status of
\* its own lookup; it is written only when every lookup has settled, and a
\* batch without valid rows writes the empty sequence and issues no request.
C1_OrderPreserved ==
  \A u \in 1..Len(uploads) :
    lastWrite = u =>
      LET up == uploads[u]
          n == Cardinality(ValidSet(up.data))
      IN /\ \A i \in 1..Len(up.pc) : up.pc[i] = "done"
         /\ Len(validatedData) = n
         /\ \A i \in 1..n :
              validatedData[i] =
                WithStatus(NthValidRow(up.data, i), ExpectedStatus(up.resp[i]))
         /\ n = 0 => /\ validatedData = <<>>
                     /\ \A k \in 1..Len(up.calls) : up.calls[k] = 0

\* Two different rows were written, the second having settled first, with
\* different statuses.
C1_Witness ==
  \E u \in 1..Len(uploads) :
    /\ lastWrite = u
    /\ uploads[u].overtaken
    /\ Len(validatedData) >= 2
    /\ validatedData[1].uid # validatedData[2].uid
    /\ validatedData[1].activationStatus # validatedData[2].activationStatus

\* C2: no lookup failure aborts the batch: the batch promise never rejects,
\* and a completed batch holds every valid row, a row being Error exactly
\* when its lookup failed, Activated exactly when the response field was
\* true and Inactive otherwise.
C2_FailureNeverAborts ==
  \A u \in 1..Len(uploads) :
    LET up == uploads[u] IN
    /\ up.phase # "failed"
    /\ (Started(u) /\ \A i \in 1..Len(up.pc) : up.pc[i] = "done") =>
         /\ up.phase = "done"
         /\ Len(up.vals) = Cardinality(ValidSet(up.data))
         /\ \A i \in 1..Len(up.vals) :
              /\ up.vals[i] # Pending
              /\ up.vals[i].uid = NthValidRow(up.data, i).uid
              /\ up.vals[i].activationStatus = "Error"
                   <=> up.resp[i] \in FailureEvents
              /\ up.vals[i].activationStatus = "Activated"
                   <=> up.resp[i] = "true"
              /\ up.vals[i].activationStatus = "Inactive"
                   <=> up.resp[i] \notin FailureEvents \cup {"true"}

\* A completed batch in which one lookup failed and another succeeded.
C2_Witness ==
  \E u \in 1..Len(uploads) :
    /\ uploads[u].phase = "done"
    /\ lastWrite = u
    /\ \E i, j \in 1..Len(validatedData) :
         /\ uploads[u].resp[i] \in FailureEvents
         /\ validatedData[i].activationStatus = "Error"
         /\ uploads[u].resp[j] = "true"
         /\ validatedData[j].activationStatus = "Activated"

\* C3: an upload whose header sequence differs from the expected one is
\* rejected: no row is validated, no request issued, and the error list is
\* the single header message with the collection emptied.
C3_HeaderMismatchRejected ==
  \A u \in 1..Len(uploads) :
    LET up == uploads[u] IN
    (up.phase # "reading" /\ up.file.fields # expectedHeaders) =>
      /\ up.phase = "rejected"
      /\ up.data = <<>> /\ up.calls = <<>> /\ up.pc = <<>>
      /\ ~clearedSince => errors = <<HeaderMessage>> /\ validatedData = <<>>

\* C4: an accepted upload issues exactly one request for each record that
\* passes validation and none for a record that fails, wherever the invalid
\* records stand; a failed lookup is not issued again.
C4_OneRequestPerValidRow ==
  \A u \in 1..Len(uploads) :
    LET up == uploads[u] IN
    /\ Started(u) =>
         /\ Len(up.calls) = Len(up.file.lines)
         /\ \A k \in 1..Len(up.calls) :
              up.calls[k] = IF k \in ValidSet(up.data) THEN 1 ELSE 0
         /\ Len(up.pc) = Cardinality(ValidSet(up.data))
         /\ \A i \in 1..Len(up.pc) :
              up.resp[i] \in FailureEvents => up.pc[i] = "done"
    /\ ~Started(u) => up.calls = <<>> /\ up.pc = <<>>

\* An invalid record stands before a valid one whose lookup failed.
C4_Witness ==
  \E u \in 1..Len(uploads) :
    LET up == uploads[u] IN
    /\ Started(u)
    /\ \E k \in 1..Len(up.data) : \E i \in 1..Len(up.from) :
         /\ k \notin ValidSet(up.data)
         /\ k < up.from[i]
         /\ up.calls[up.from[i]] = 1
         /\ up.resp[i] = "netfail"

\* The error list as the upload's row processing left it.
ErrorsOf(u) == Started(u) /\ ~clearedSince

\* C5: the valid rows are the records that pass validation, in their
\* original order; every error string cites the 1-based position of an
\* invalid record among all records, in increasing order; every invalid
\* record has an error string and no valid record has one.
C5_RowPartition ==
  \A u \in 1..Len(uploads) :
    LET up == uploads[u] IN
    Started(u) =>
      /\ Len(up.validRows) = Cardinality(ValidSet(up.data))
      /\ \A i \in 1..Len(up.validRows) :
           up.validRows[i] = NthValidRow(up.data, i)
      /\ ErrorsOf(u) =>
           /\ \A e \in 1..Len(errors) :
                /\ errors[e].row \in (1..Len(up.data)) \ ValidSet(up.data)
                /\ \E j \in 1..Len(csvSchema(up.data[errors[e].row]).issues) :
                     LET issue == csvSchema(up.data[errors[e].row]).issues[j]
                     IN errors[e].path = issue.path
                        /\ errors[e].message = issue.message
                /\ e > 1 => errors[e - 1].row <= errors[e].row
           /\ \A k \in (1..Len(up.data)) \ ValidSet(up.data) :
                Cardinality({e \in 1..Len(errors) : errors[e].row = k})
                  = Len(csvSchema(up.data[k]).issues)

\* A valid record stands before an invalid one with two bad fields, and a
\* valid record after it.
C5_Witness ==
  \E u \in 1..Len(uploads) :
    LET up == uploads[u] IN
    /\ ErrorsOf(u)
    /\ Len(up.data) >= 2
    /\ 1 \in ValidSet(up.data)
    /\ 2 \notin ValidSet(up.data)
    /\ Len(errors) = 2
    /\ errors[1].row = 2 /\ errors[2].row = 2
    /\ errors[1].path # errors[2].path

\* C6: after Clear the collection and the error list are empty and stay so
\* until the next file is chosen.
C6_ClearedStaysEmpty ==
  clearedSince => validatedData = <<>> /\ errors = <<>>

\* C7: once an upload is accepted, loading is true while its lookups are
\* awaited, and eventually the batch has written its result and loading is
\* false; an accepted upload without valid rows ends so at once.
C7_Step(u) ==
  (u <= Len(uploads) /\ uploads[u].phase = "reading"
     /\ uploads'[u].phase # "reading" /\ uploads'[u].phase # "rejected") =>
    IF uploads'[u].validRows = <<>>
    THEN uploads'[u].phase = "done" /\ ~loading' /\ validatedData' = <<>>
    ELSE uploads'[u].phase = "inflight" /\ loading'

C7_Awaiting(u) == u <= Len(uploads) /\ uploads[u].phase = "inflight"

C7_Completed(u) ==
  /\ u <= Len(uploads)
  /\ uploads[u].phase = "done"
  /\ ~loading
  /\ lastWrite = u
  /\ Len(validatedData) = Len(uploads[u].validRows)
  /\ \A i \in 1..Len(validatedData) :
       validatedData[i] =
         WithStatus(uploads[u].validRows[i], ExpectedStatus(uploads[u].resp[i]))

C7_FlowCompletes ==
  /\ [][\A u \in 1..MaxUploads : C7_Step(u)]_vars
  /\ \A u \in 1..MaxUploads : C7_Awaiting(u) ~> C7_Completed(u)

\* A batch with an invalid record and a failed lookup has completed.
C7_Witness ==
  \E u \in 1..Len(uploads) :
    /\ C7_Completed(u)
    /\ Len(errors) > 0
    /\ \E i \in 1..Len(validatedData) : validatedData[i].activationStatus = "Error"

\* C8: no object URL created for a download remains unreleased.
C8_HandlesReleased == objectURLs = <<>>

\* C9: a record whose firstname, lastname, username or password is empty
\* after trimming fails validation and no lookup is issued for it.
C9_BlankFieldRejected ==
  \A u \in 1..Len(uploads) :
    LET up == uploads[u] IN
    Started(u) =>
      \A k \in 1..Len(up.data) :
        (\E key \in {FIRSTNAME, LASTNAME, USERNAME, PASSWORD} :
           Get(up.data[k], key) # Undefined /\ Trim(Get(up.data[k], key)) = <<>>) =>
          /\ up.calls[k] = 0
          /\ \A i \in 1..Len(up.from) : up.from[i] # k
          /\ ErrorsOf(u) => \E e \in 1..Len(errors) : errors[e].row = k

\* C10: with two uploads overlapping, once every lookup has settled the
\* collection is the result of the most recently chosen file, and loading
\* is true while any lookup is in flight.
C10_LatestUploadWins ==
  /\ (/\ Len(uploads) >= 2
      /\ \A u \in 1..Len(uploads) : uploads[u].phase \in {"done", "rejected"}
      /\ uploads[Len(uploads)].phase = "done"
      /\ ~clearedSince) =>
       validatedData = uploads[Len(uploads)].vals
  /\ (\E u \in 1..Len(uploads) : uploads[u].phase = "inflight") => loading

====
